---- MODULE Spec2Model ----
(***************************************************************************)
(* Item-listing service (python/main.py): the items and categories tables, *)
(* the images directory, and the request handlers add_item, get_image,     *)
(* get_item, delete_item and update_item.                                  *)
(*                                                                         *)
(* Spec      : requests are served one after another (each handler is one  *)
(*             atomic action).                                             *)
(* SpecConc  : add_item and delete_item requests served by two concurrent  *)
(*             handlers, interleaved at the granularity of one SQL         *)
(*             statement (with its commit) or one filesystem call.         *)
(***************************************************************************)
EXTENDS Integers, Sequences, FiniteSets, TLC

VARIABLES
    items,        \* table items: id -> [name, category_id, image_name]
    categories,   \* table categories: id -> name
    images,       \* the files present in the images directory
    resp,         \* Spec: the HTTP response to the request served last
    log,          \* Spec: the lines that request wrote to the logger
    loc,          \* Spec: delete_item's locals image_name and count at return
    pc,           \* SpecConc: each handler's position
    hloc,         \* SpecConc: each handler's local variables
    hresp         \* SpecConc: each handler's last HTTP status (0: none yet)

vars == <<items, categories, images, resp, log, loc, pc, hloc, hresp>>

seqVars == <<resp, log, loc>>

concVars == <<pc, hloc, hresp>>

-----------------------------------------------------------------------------
(* Bounds and input domains *)

MaxItemId == 2

MAX_FILE_SIZE == 1048576

ItemIds == 1..MaxItemId

Names == {"bat", "ball"}

CategoryNames == {"toys", "pets"}

None == "None"

Handlers == {"h1", "h2"}

(* An uploaded file: its file name (stem and extension), its declared MIME  *)
(* type and its bytes (a token standing for the content).                   *)
NoUpload == [present |-> FALSE, stem |-> "", ext |-> "", content_type |-> "", bytes |-> ""]

Uploads ==
    { [present |-> TRUE, stem |-> "photo", ext |-> ".jpg",  content_type |-> "image/jpeg", bytes |-> "b1"],
      [present |-> TRUE, stem |-> "PHOTO", ext |-> ".JPEG", content_type |-> "image/jpeg", bytes |-> "b2"],
      [present |-> TRUE, stem |-> "big",   ext |-> ".jpg",  content_type |-> "image/jpeg", bytes |-> "bBig"],
      [present |-> TRUE, stem |-> "pic",   ext |-> ".png",  content_type |-> "image/png",  bytes |-> "b1"],
      [present |-> TRUE, stem |-> "fake",  ext |-> ".jpg",  content_type |-> "image/png",  bytes |-> "b2"] }

(* len(image_bytes) *)
BytesLen(b) ==
    CASE b = "b1"   -> 10240
      [] b = "b2"   -> 2048
      [] b = "bBig" -> MAX_FILE_SIZE + 1
      [] OTHER      -> 0

(* hashlib.sha256(image_bytes).hexdigest(): a function of the bytes alone,  *)
(* taken collision-free on the contents used here.                          *)
Sha256Hex(b) ==
    CASE b = "b1"   -> "9f86d0"
      [] b = "b2"   -> "60303a"
      [] b = "bBig" -> "fd61a0"
      [] OTHER      -> "e3b0c4"

(* str.lower() on a file extension *)
Lower(e) ==
    CASE e = ".JPG"  -> ".jpg"
      [] e = ".JPEG" -> ".jpeg"
      [] e = ".PNG"  -> ".png"
      [] OTHER       -> e

(* A file name in the images directory: stem and extension *)
FileName(s, e) == [stem |-> s, ext |-> e]

(* f"{image_hash}.jpg" *)
ImageFilename(bytes) == FileName(Sha256Hex(bytes), ".jpg")

DefaultImage == FileName("default", ".jpg")

NoFile == FileName("", "")

(* image.filename.lower().endswith((".jpg", ".jpeg")) *)
HasJpegExtension(image) == Lower(image.ext) \in {".jpg", ".jpeg"}

(* The names GET /images/{image_name} is asked for *)
ImageNames ==
    { ImageFilename("b1"), ImageFilename("b2"),
      FileName("doesnotexist", ".jpg"), FileName(Sha256Hex("b1"), ".png") }

-----------------------------------------------------------------------------
(* Tables *)

Max(S) == IF S = {} THEN 0 ELSE CHOOSE m \in S : \A x \in S : x <= m

Min(S) == CHOOSE m \in S : \A x \in S : m <= x

Put(f, k, v) == [x \in DOMAIN f \cup {k} |-> IF x = k THEN v ELSE f[x]]

Drop(f, K) == [x \in DOMAIN f \ K |-> f[x]]

EmptyTable == [x \in {} |-> 0]

(* SELECT id FROM categories WHERE name = ? ; fetchone(): 0 stands for None *)
SelectCategoryId(cats, name) ==
    LET hits == {c \in DOMAIN cats : cats[c] = name}
    IN  IF hits = {} THEN 0 ELSE Min(hits)

(* INSERT INTO categories (name) VALUES (?) ; commit ; cursor.lastrowid *)
InsertCategory(cats, name) ==
    LET new_id == Max(DOMAIN cats) + 1
    IN  [categories |-> Put(cats, new_id, name), category_id |-> new_id]

(* categories.name UNIQUE: the INSERT of a name already in the table fails *)
CategoryNameTaken(cats, name) == \E c \in DOMAIN cats : cats[c] = name

(* items.name UNIQUE: a row other than `id` already carries the name *)
ItemNameTaken(its, id, name) == \E j \in DOMAIN its \ {id} : its[j].name = name

(* The ids the store may assign to a new items row: any id no row has *)
FreeItemIds(its) == ItemIds \ DOMAIN its

(* The id an INSERT of `name` would get; 0 when the name is taken and no  *)
(* row is inserted                                                        *)
NewItemIds(its, name) ==
    IF \E i \in DOMAIN its : its[i].name = name THEN {0} ELSE FreeItemIds(its)

(* The mutant: always inserts, never looks the name up *)
GetOrCreate_NoLookup(cats, name) == InsertCategory(cats, name)

(* insert_item / update_item: look the category up, insert it when absent *)
GetOrCreate(cats, name) ==
    LET category_row == SelectCategoryId(cats, name)
    IN  IF category_row = 0
        THEN InsertCategory(cats, name)
        ELSE [categories |-> cats, category_id |-> category_row]

(* SELECT id FROM items WHERE name = ? ; fetchone(): 0 stands for None *)
SelectItemId(its, name) ==
    LET hits == {i \in DOMAIN its : its[i].name = name}
    IN  IF hits = {} THEN 0 ELSE Min(hits)

(* items JOIN categories ON items.category_id = categories.id WHERE items.id = ? *)
JoinHasRow(its, cats, item_id) ==
    item_id \in DOMAIN its /\ its[item_id].category_id \in DOMAIN cats

JoinRow(its, cats, item_id) ==
    [kind |-> "item", id |-> item_id, name |-> its[item_id].name,
     category_name |-> cats[its[item_id].category_id],
     image_name |-> its[item_id].image_name]

(* The mutant: the count forgets the WHERE clause's parameter *)
CountReferents_Zero(its, image_name) == 0

(* SELECT COUNT FROM items WHERE image_name = ? *)
CountReferents(its, image_name) ==
    Cardinality({i \in DOMAIN its : its[i].image_name = image_name})

(* The mutant: deletes every row that carries the item's image *)
DeleteRow_ByImage(its, item_id) ==
    IF item_id \in DOMAIN its
    THEN Drop(its, {j \in DOMAIN its : its[j].image_name = its[item_id].image_name})
    ELSE its

(* DELETE FROM items WHERE id = ? ; commit *)
DeleteRow(its, item_id) == Drop(its, {item_id})

-----------------------------------------------------------------------------
(* Responses and log lines *)

NoBody == [kind |-> "none"]

Response(status, detail, body) == [status |-> status, detail |-> detail, body |-> body]

(* {"message": ...} with the value the f-string interpolates *)
Message(item_id, name) == [kind |-> "message", item_id |-> item_id, name |-> name]

(* One logger call: the text and the values its f-string interpolates (an  *)
(* item id, an item name, an image path, a caught exception)               *)
LogLine(msg, item_id, name, file, e) ==
    [msg |-> msg, item_id |-> item_id, name |-> name, file |-> file, e |-> e]

NoLoc == [image_name |-> NoFile, count |-> 0]

(* A concurrent handler's locals, as far as its later steps read them *)
NoLocals ==
    [name |-> "", category |-> "", image_name |-> NoFile,
     category_id |-> 0, item_id |-> 0, count |-> 0]

-----------------------------------------------------------------------------
(* insert_item: the tables after the call (new_id: the id the store gives  *)
(* the new row), the status it ends with and the lines it logs.  The       *)
(* HTTPException(400) of a duplicate name is raised inside the try block,  *)
(* so `except Exception` catches it, rolls back and raises 500 "Failed to  *)
(* save item".  A new category is committed before the duplicate check.    *)
insert_item(item, new_id, its, cats) ==
    LET goc == GetOrCreate(cats, item.category)
        existing_item == SelectItemId(its, item.name)
    IN  IF existing_item # 0
        THEN [items |-> its, categories |-> goc.categories,
              status |-> 500, detail |-> "Failed to save item",
              log |-> << LogLine("Item already exists", existing_item, "", NoFile, ""),
                         LogLine("Failed to save item", 0, "", NoFile,
                                 "400: Item already exists") >>]
        ELSE [items |-> Put(its, new_id,
                            [name |-> item.name, category_id |-> goc.category_id,
                             image_name |-> item.image_name]),
              categories |-> goc.categories,
              status |-> 200, detail |-> "item received",
              log |-> << LogLine("New item inserted", 0, item.name, item.image_name, "") >>]

(* add_item's checks before anything is stored: "" when the request passes *)
add_item_rejection(r) ==
    IF r.name = "" \/ r.category = "" \/ ~r.image.present
        THEN "name, category, and image are required"
    ELSE IF ~HasJpegExtension(r.image)
        THEN "Uploaded file must have a .jpg or .jpeg extension"
    ELSE IF BytesLen(r.image.bytes) > MAX_FILE_SIZE
        THEN "File size exceeds the limit"
    ELSE IF r.image.content_type # "image/jpeg"
        THEN "Uploaded file is not a valid JPG image"
    ELSE ""

AddRequests == [name : Names \cup {""}, category : CategoryNames \cup {""}, image : Uploads]

(* POST /items *)
add_item(r) ==
    /\ loc' = NoLoc
    /\ IF add_item_rejection(r) # ""
       THEN /\ resp' = Response(400, add_item_rejection(r), NoBody)
            /\ log' = << >>
            /\ UNCHANGED <<items, categories, images>>
       ELSE LET image_filename == ImageFilename(r.image.bytes)
                item == [name |-> r.name, category |-> r.category,
                         image_name |-> image_filename]
            IN  /\ images' = images \cup {image_filename}
                /\ \E new_id \in NewItemIds(items, r.name) :
                      \E out \in {insert_item(item, new_id, items, categories)} :
                          /\ items' = out.items
                          /\ categories' = out.categories
                          /\ log' = out.log
                          /\ resp' = Response(out.status, out.detail,
                                              IF out.status = 200
                                              THEN Message(0, r.name) ELSE NoBody)
    /\ UNCHANGED concVars

-----------------------------------------------------------------------------
(* The mutant: no fallback to default.jpg *)
served_image_NoFallback(image_name, fs) == image_name

(* get_image: the file handed to FileResponse *)
served_image(image_name, fs) ==
    IF image_name \notin fs THEN DefaultImage ELSE image_name

(* get_image's response.  FileResponse of a file that is not there fails *)
(* while the response is sent (500).                                      *)
get_image_response(image_name, fs) ==
    IF image_name.ext # ".jpg"
    THEN Response(400, "Image path does not end with .jpg", NoBody)
    ELSE LET image == served_image(image_name, fs)
         IN  IF image \in fs
             THEN Response(200, "", [kind |-> "file", file |-> image])
             ELSE Response(500, "Internal Server Error", NoBody)

(* GET /images/{image_name} *)
get_image(image_name) ==
    /\ loc' = NoLoc
    /\ resp' = get_image_response(image_name, images)
    /\ log' = IF image_name.ext = ".jpg" /\ image_name \notin images
              THEN << LogLine("Image not found", 0, "", image_name, "") >>
              ELSE << >>
    /\ UNCHANGED <<items, categories, images>>
    /\ UNCHANGED concVars

-----------------------------------------------------------------------------
(* GET /items/{item_id}: the HTTPException(404) is raised inside the try   *)
(* block and caught by `except Exception`, which raises 500.               *)
get_item(item_id) ==
    /\ loc' = NoLoc
    /\ IF ~JoinHasRow(items, categories, item_id)
       THEN /\ resp' = Response(500, "Failed to get item", NoBody)
            /\ log' = << LogLine("Failed to get item", item_id, "", NoFile,
                                 "404: Item not found") >>
       ELSE /\ resp' = Response(200, "", JoinRow(items, categories, item_id))
            /\ log' = << >>
    /\ UNCHANGED <<items, categories, images>>
    /\ UNCHANGED concVars

-----------------------------------------------------------------------------
(* delete_item: the items table, the images directory, the response and *)
(* the locals after the call.  Its 404 too is raised inside the try      *)
(* block, so it is answered 500.                                         *)
delete_item_result(item_id, its, fs) ==
    IF item_id \notin DOMAIN its
    THEN [items |-> its, images |-> fs, loc |-> NoLoc,
          resp |-> Response(500, "Failed to delete item", NoBody),
          log |-> << LogLine("Failed to delete item", item_id, "", NoFile,
                             "404: Item not found") >>]
    ELSE LET image_name == its[item_id].image_name
             rest == DeleteRow(its, item_id)
             count == CountReferents(rest, image_name)
         IN  [items |-> rest,
              images |-> IF count = 0 /\ image_name \in fs
                         THEN fs \ {image_name} ELSE fs,
              loc |-> [image_name |-> image_name, count |-> count],
              resp |-> Response(200, "Item deleted successfully", Message(item_id, "")),
              log |-> << >>]

(* DELETE /items/{item_id} *)
delete_item(item_id) ==
    /\ \E out \in {delete_item_result(item_id, items, images)} :
           /\ items' = out.items
           /\ images' = out.images
           /\ loc' = out.loc
           /\ resp' = out.resp
           /\ log' = out.log
    /\ UNCHANGED categories
    /\ UNCHANGED concVars

-----------------------------------------------------------------------------
(* update_item's diff of the supplied fields against the existing row *)

(* The mutant: a supplied name always counts as a change *)
NameChanged_NoCompare(name, existing) == name # None /\ name # ""

(* if name and name != existing_item["name"] *)
NameChanged(name, existing) ==
    name # None /\ name # "" /\ name # existing.name

(* if category and category != existing_item["category_name"] *)
CategoryChanged(category, existing) ==
    category # None /\ category # "" /\ category # existing.category_name

(* update_item: the tables, the images directory, the response and the    *)
(* log after the call.  Every HTTPException raised inside the try block   *)
(* (404, 400) is caught by `except Exception` and becomes 500 "Failed to  *)
(* update item"; the rollback undoes only the uncommitted UPDATE, not the *)
(* committed category row nor the files written and unlinked.             *)
update_item_result(item_id, name, category, image, its, cats, fs) ==
    LET failed(c, f, lines, e) ==
            [items |-> its, categories |-> c, images |-> f,
             status |-> 500, detail |-> "Failed to update item",
             log |-> lines \o << LogLine("Failed to update item", item_id, "", NoFile, e) >>]
    IN
    IF ~JoinHasRow(its, cats, item_id)
    THEN failed(cats, fs, << >>, "404: Item not found")
    ELSE
    LET existing == JoinRow(its, cats, item_id)
        name_changed == NameChanged(name, existing)
        category_changed == CategoryChanged(category, existing)
        goc == IF category_changed
               THEN GetOrCreate(cats, category)
               ELSE [categories |-> cats, category_id |-> its[item_id].category_id]
    IN
    IF image.present /\ ~HasJpegExtension(image)
    THEN failed(goc.categories, fs, << >>,
                "400: Uploaded file must have a .jpg or .jpeg extension")
    ELSE IF image.present /\ BytesLen(image.bytes) > MAX_FILE_SIZE
    THEN failed(goc.categories, fs, << >>, "400: File size exceeds the limit")
    ELSE
    LET image_filename == ImageFilename(image.bytes)
        replaced == image.present /\ image_filename # existing.image_name
        healed == /\ image.present
                  /\ image_filename = existing.image_name
                  /\ image_filename \notin fs
        fs1 == IF replaced THEN (fs \cup {image_filename}) \ {existing.image_name}
               ELSE IF healed THEN fs \cup {image_filename}
               ELSE fs
        lines == IF replaced \/ healed
                 THEN << LogLine("New image saved", 0, "", image_filename, "") >>
                 ELSE IF image.present
                 THEN << LogLine("Image already exists", 0, "", image_filename, "") >>
                 ELSE << >>
        row == [name |-> IF name_changed THEN name ELSE its[item_id].name,
                category_id |-> goc.category_id,
                image_name |-> IF replaced \/ healed THEN image_filename
                               ELSE its[item_id].image_name]
    IN
    IF ~(name_changed \/ category_changed \/ replaced \/ healed)
    THEN [items |-> its, categories |-> goc.categories, images |-> fs1,
          status |-> 200, detail |-> "No changes detected, item not updated",
          log |-> lines]
    ELSE IF name_changed /\ ItemNameTaken(its, item_id, name)
    THEN failed(goc.categories, fs1, lines, "UNIQUE constraint failed: items.name")
    ELSE [items |-> Put(its, item_id, row), categories |-> goc.categories,
          images |-> fs1, status |-> 200, detail |-> "Item updated successfully",
          log |-> lines]

UpdateRequests ==
    [item_id : ItemIds, name : Names \cup {None},
     category : CategoryNames \cup {None}, image : Uploads \cup {NoUpload}]

(* PATCH /items/{item_id} *)
update_item(r) ==
    /\ loc' = NoLoc
    /\ \E out \in {update_item_result(r.item_id, r.name, r.category, r.image,
                                        items, categories, images)} :
           /\ items' = out.items
           /\ categories' = out.categories
           /\ images' = out.images
           /\ log' = out.log
           /\ resp' = Response(out.status, out.detail, NoBody)
    /\ UNCHANGED concVars

-----------------------------------------------------------------------------
(* The store right after the schema script ran: both tables empty, and the *)
(* images directory holding the reserved default.jpg.                      *)
Init ==
    /\ items = EmptyTable
    /\ categories = EmptyTable
    /\ images = {DefaultImage}
    /\ resp = Response(0, "", NoBody)
    /\ log = << >>
    /\ loc = NoLoc
    /\ pc = [h \in Handlers |-> "idle"]
    /\ hloc = [h \in Handlers |-> NoLocals]
    /\ hresp = [h \in Handlers |-> 0]

AddItem == \E r \in AddRequests : add_item(r)

GetImage == \E image_name \in ImageNames : get_image(image_name)

GetItem == \E item_id \in ItemIds : get_item(item_id)

DeleteItem == \E item_id \in ItemIds : delete_item(item_id)

UpdateItem == \E r \in UpdateRequests : update_item(r)

Next == AddItem \/ GetImage \/ GetItem \/ DeleteItem \/ UpdateItem

Spec == Init /\ [][Next]_vars

-----------------------------------------------------------------------------
(* Concurrent handlers.  Each request has its own connection (get_db); a  *)
(* handler's step is one SQL statement together with the commit that       *)
(* follows it, or one call on the images directory.  A handler that ends  *)
(* answers with a status and forgets its locals.                          *)

Finish(h, status) ==
    /\ pc' = [pc EXCEPT ![h] = "idle"]
    /\ hloc' = [hloc EXCEPT ![h] = NoLocals]
    /\ hresp' = [hresp EXCEPT ![h] = status]

Goto(h, label, locals) ==
    /\ pc' = [pc EXCEPT ![h] = label]
    /\ hloc' = [hloc EXCEPT ![h] = locals]
    /\ hresp' = [hresp EXCEPT ![h] = 0]

(* The add_item requests that pass the checks.  A rejected request is    *)
(* answered 400 before the handler reads or writes anything shared.       *)
AcceptedAddRequests == {r \in AddRequests : add_item_rejection(r) = ""}

(* add_item up to the file write: the checks, the hash, open(...).write *)
AddBegin(h) ==
    /\ pc[h] = "idle"
    /\ \E r \in AcceptedAddRequests :
          /\ images' = images \cup {ImageFilename(r.image.bytes)}
          /\ Goto(h, "select_category",
                  [NoLocals EXCEPT !.name = r.name, !.category = r.category,
                                   !.image_name = ImageFilename(r.image.bytes)])
    /\ UNCHANGED <<items, categories>>
    /\ UNCHANGED seqVars

(* insert_item: SELECT id FROM categories WHERE name = ? *)
AddSelectCategory(h) ==
    /\ pc[h] = "select_category"
    /\ LET category_row == SelectCategoryId(categories, hloc[h].category)
       IN  Goto(h, IF category_row = 0 THEN "insert_category" ELSE "select_item",
                [hloc[h] EXCEPT !.category_id = category_row])
    /\ UNCHANGED <<items, categories, images>>
    /\ UNCHANGED seqVars

(* insert_item: INSERT INTO categories ; commit ; lastrowid.  There is no *)
(* handler for the failed INSERT other than `except Exception`: it rolls  *)
(* back and raises 500.                                                   *)
AddInsertCategory(h) ==
    /\ pc[h] = "insert_category"
    /\ IF CategoryNameTaken(categories, hloc[h].category)
       THEN /\ Finish(h, 500)
            /\ UNCHANGED categories
       ELSE LET ins == InsertCategory(categories, hloc[h].category)
            IN  /\ categories' = ins.categories
                /\ Goto(h, "select_item",
                        [hloc[h] EXCEPT !.category_id = ins.category_id])
    /\ UNCHANGED <<items, images>>
    /\ UNCHANGED seqVars

(* insert_item: SELECT id FROM items WHERE name = ? ; the 400 it raises   *)
(* for an existing item is caught and becomes 500                         *)
AddSelectItem(h) ==
    /\ pc[h] = "select_item"
    /\ IF SelectItemId(items, hloc[h].name) # 0
       THEN Finish(h, 500)
       ELSE Goto(h, "insert_item", hloc[h])
    /\ UNCHANGED <<items, categories, images>>
    /\ UNCHANGED seqVars

(* insert_item: INSERT INTO items ; commit *)
AddInsertItem(h) ==
    /\ pc[h] = "insert_item"
    /\ IF ItemNameTaken(items, 0, hloc[h].name)
       THEN /\ Finish(h, 500)
            /\ UNCHANGED items
       ELSE \E new_id \in FreeItemIds(items) :
               /\ items' = Put(items, new_id,
                               [name |-> hloc[h].name,
                                category_id |-> hloc[h].category_id,
                                image_name |-> hloc[h].image_name])
               /\ Finish(h, 200)
    /\ UNCHANGED <<categories, images>>
    /\ UNCHANGED seqVars

(* delete_item: SELECT image_name FROM items WHERE id = ? *)
DeleteBegin(h) ==
    /\ pc[h] = "idle"
    /\ \E item_id \in ItemIds :
          IF item_id \notin DOMAIN items
          THEN Finish(h, 500)
          ELSE Goto(h, "delete_row",
                    [NoLocals EXCEPT !.item_id = item_id,
                                     !.image_name = items[item_id].image_name])
    /\ UNCHANGED <<items, categories, images>>
    /\ UNCHANGED seqVars

(* delete_item: DELETE FROM items WHERE id = ? ; commit *)
DeleteDeleteRow(h) ==
    /\ pc[h] = "delete_row"
    /\ items' = DeleteRow(items, hloc[h].item_id)
    /\ Goto(h, "count", hloc[h])
    /\ UNCHANGED <<categories, images>>
    /\ UNCHANGED seqVars

(* delete_item: SELECT COUNT ... WHERE image_name = ? ; if count == 0 *)
DeleteCount(h) ==
    /\ pc[h] = "count"
    /\ LET count == CountReferents(items, hloc[h].image_name)
       IN  IF count = 0
           THEN Goto(h, "exists", [hloc[h] EXCEPT !.count = count])
           ELSE Finish(h, 200)
    /\ UNCHANGED <<items, categories, images>>
    /\ UNCHANGED seqVars

(* delete_item: ... and image_path.exists() *)
DeleteExists(h) ==
    /\ pc[h] = "exists"
    /\ IF hloc[h].image_name \in images
       THEN Goto(h, "remove", hloc[h])
       ELSE Finish(h, 200)
    /\ UNCHANGED <<items, categories, images>>
    /\ UNCHANGED seqVars

(* delete_item: os.remove(image_path); FileNotFoundError when another     *)
(* handler removed the file since exists(), caught and answered 500       *)
DeleteRemove(h) ==
    /\ pc[h] = "remove"
    /\ IF hloc[h].image_name \in images
       THEN /\ images' = images \ {hloc[h].image_name}
            /\ Finish(h, 200)
       ELSE /\ Finish(h, 500)
            /\ UNCHANGED images
    /\ UNCHANGED <<items, categories>>
    /\ UNCHANGED seqVars

NextConc ==
    \E h \in Handlers :
        \/ AddBegin(h)
        \/ AddSelectCategory(h)
        \/ AddInsertCategory(h)
        \/ AddSelectItem(h)
        \/ AddInsertItem(h)
        \/ DeleteBegin(h)
        \/ DeleteDeleteRow(h)
        \/ DeleteCount(h)
        \/ DeleteExists(h)
        \/ DeleteRemove(h)

SpecConc == Init /\ [][NextConc]_vars

-----------------------------------------------------------------------------
(* Properties of Spec *)

CoreVars == <<items, categories, images>>

(* C1: an add_item whose request passes validation and whose name an item *)
(* already carries is answered 400 and leaves the items table as it was.  *)
C1_DuplicateNameIs400 ==
    [][\A r \in AddRequests :
          (/\ add_item_rejection(r) = ""
           /\ SelectItemId(items, r.name) # 0
           /\ add_item(r))
          => (resp'.status = 400 /\ items' = items)]_vars

(* C2: every item row's image_name names a file present in the images     *)
(* directory (or the reserved default image).                             *)
C2_BlobsPresent ==
    \A i \in DOMAIN items :
        items[i].image_name \in images \/ items[i].image_name = DefaultImage

(* C3: in every reachable state, a delete_item of an existing item      *)
(* succeeds, removes exactly its row, keeps its image file while another  *)
(* row still references it, removes the file when it was the last         *)
(* referent, and touches no other file.                                   *)
C3_RefCountedCleanup ==
    \A item_id \in DOMAIN items :
        LET out == delete_item_result(item_id, items, images)
            X == items[item_id].image_name
            shared == \E j \in DOMAIN items \ {item_id} : items[j].image_name = X
        IN  /\ out.resp.status = 200
            /\ DOMAIN out.items = DOMAIN items \ {item_id}
            /\ \A j \in DOMAIN out.items : out.items[j] = items[j]
            /\ shared => (X \in images <=> X \in out.images)
            /\ ~shared => X \notin out.images
            /\ out.images \ {X} = images \ {X}

C3_Witness ==
    /\ resp.detail = "Item deleted successfully"
    /\ loc.count >= 1
    /\ loc.image_name \in images
    /\ \E i \in DOMAIN items : items[i].image_name = loc.image_name

(* C4: get_item, update_item and delete_item of an id that has no item    *)
(* row are answered 404 and change neither table nor the images directory.*)
C4_MissingIdIs404 ==
    [][/\ \A item_id \in ItemIds :
             (item_id \notin DOMAIN items /\ get_item(item_id))
             => (resp'.status = 404 /\ UNCHANGED CoreVars)
       /\ \A item_id \in ItemIds :
             (item_id \notin DOMAIN items /\ delete_item(item_id))
             => (resp'.status = 404 /\ UNCHANGED CoreVars)
       /\ \A r \in UpdateRequests :
             (r.item_id \notin DOMAIN items /\ update_item(r))
             => (resp'.status = 404 /\ UNCHANGED CoreVars)]_vars

(* What C5 asks of the categories table `cats1` an operation leaves     *)
(* behind, given the table `cats` it found: every row kept as it was, a   *)
(* row added only for a name no row carried, no name carried twice.       *)
CategoriesGrowDedup(cats, cats1) ==
    /\ \A c \in DOMAIN cats : c \in DOMAIN cats1 /\ cats1[c] = cats[c]
    /\ \A c \in DOMAIN cats1 \ DOMAIN cats : ~CategoryNameTaken(cats, cats1[c])
    /\ \A c, d \in DOMAIN cats1 : cats1[c] = cats1[d] => c = d

C5_AddItem ==
    \A r \in AddRequests : \A new_id \in NewItemIds(items, r.name) :
        add_item_rejection(r) = "" =>
            LET out == insert_item([name |-> r.name, category |-> r.category,
                                    image_name |-> ImageFilename(r.image.bytes)],
                                   new_id, items, categories)
            IN  /\ CategoriesGrowDedup(categories, out.categories)
                /\ out.status = 200 =>
                      /\ out.items[new_id].category_id \in DOMAIN out.categories
                      /\ out.categories[out.items[new_id].category_id] = r.category

C5_UpdateItem ==
    \A r \in UpdateRequests :
        LET out == update_item_result(r.item_id, r.name, r.category, r.image,
                                      items, categories, images)
        IN  /\ CategoriesGrowDedup(categories, out.categories)
            /\ (out.status = 200 /\ r.category # None) =>
                  /\ out.items[r.item_id].category_id \in DOMAIN out.categories
                  /\ out.categories[out.items[r.item_id].category_id] = r.category

(* C5: no two category rows carry the same name; no step deletes or       *)
(* renames a category row or adds one for a name a row already carried;   *)
(* and in every reachable state an add_item or update_item with a         *)
(* category name leaves the item holding the id of the row of that name.  *)
C5_CategoryDedup ==
    /\ [](\A c, d \in DOMAIN categories : categories[c] = categories[d] => c = d)
    /\ [](C5_AddItem /\ C5_UpdateItem)
    /\ [][CategoriesGrowDedup(categories, categories')]_vars

C5_Witness ==
    /\ resp.detail = "item received"
    /\ Cardinality(DOMAIN categories) = 2
    /\ \E i, j \in DOMAIN items :
          i # j /\ items[i].category_id = items[j].category_id

(* An update request none of whose supplied fields differs from the row:  *)
(* the name and the category name are absent or the row's, and the image  *)
(* is absent or an accepted upload whose content hash is the row's.       *)
IdenticalUpdate(r) ==
    /\ JoinHasRow(items, categories, r.item_id)
    /\ r.name \in {None, items[r.item_id].name}
    /\ r.category \in {None, categories[items[r.item_id].category_id]}
    /\ \/ ~r.image.present
       \/ /\ HasJpegExtension(r.image)
          /\ BytesLen(r.image.bytes) <= MAX_FILE_SIZE
          /\ ImageFilename(r.image.bytes) = items[r.item_id].image_name

NoChanges == "No changes detected, item not updated"

(* C7 as stated: every such update answers "no changes" and leaves the    *)
(* tables and the images directory unchanged.                             *)
C7_NoOpUpdate_Orig ==
    [][\A r \in UpdateRequests :
          (IdenticalUpdate(r) /\ update_item(r))
          => (resp'.detail = NoChanges /\ UNCHANGED CoreVars)]_vars

(* C7 amended: in every reachable state it does so provided that, when  *)
(* an image is supplied, the row's image file is present in the images    *)
(* directory.                                                             *)
C7_NoOpUpdate ==
    \A r \in UpdateRequests :
        (/\ IdenticalUpdate(r)
         /\ r.image.present => items[r.item_id].image_name \in images)
        => LET out == update_item_result(r.item_id, r.name, r.category, r.image,
                                         items, categories, images)
           IN  /\ out.status = 200
               /\ out.detail = NoChanges
               /\ out.items = items
               /\ out.categories = categories
               /\ out.images = images

C7_Witness ==
    /\ resp.detail = NoChanges
    /\ Len(log) = 1
    /\ log[1].msg = "Image already exists"
    /\ \E i \in DOMAIN items : items[i].image_name = log[1].file

(* C8: default.jpg is always in the images directory; in every          *)
(* reachable state a name ending in .jpg is answered 200 with the named   *)
(* file when it is there and with default.jpg otherwise, and any other    *)
(* name is answered 400.                                                  *)
C8_ImageFallback ==
    /\ DefaultImage \in images
    /\ \A image_name \in ImageNames :
          LET r == get_image_response(image_name, images)
          IN  IF image_name.ext = ".jpg"
              THEN r = Response(200, "",
                                [kind |-> "file",
                                 file |-> IF image_name \in images
                                          THEN image_name ELSE DefaultImage])
              ELSE r.status = 400

C8_Witness ==
    /\ resp.status = 200
    /\ resp.body = [kind |-> "file", file |-> DefaultImage]
    /\ Len(log) = 1
    /\ log[1].msg = "Image not found"
    /\ \E i \in DOMAIN items : items[i].image_name = log[1].file

(* C10: an update_item of an existing item that fails leaves the item's   *)
(* row as it was and the file its image_name names in place.              *)
C10_FailedUpdateKeepsBlob ==
    [][\A r \in UpdateRequests :
          (/\ JoinHasRow(items, categories, r.item_id)
           /\ resp'.status = 500
           /\ update_item(r))
          => /\ items' = items
             /\ items[r.item_id].image_name \in images
                   => items[r.item_id].image_name \in images']_vars

-----------------------------------------------------------------------------
(* Properties of SpecConc *)

(* C6: no two category rows carry the same name, and a handler that       *)
(* leaves the INSERT INTO categories step goes on to the item lookup      *)
(* holding the id of the committed row of its category name (a handler    *)
(* that loses the insert re-reads instead of failing).                    *)
C6_RaceSafeGetOrCreate ==
    [][/\ \A c, d \in DOMAIN categories' :
             categories'[c] = categories'[d] => c = d
       /\ \A h \in Handlers :
             (pc[h] = "insert_category" /\ pc'[h] # "insert_category")
             => /\ pc'[h] = "select_item"
                /\ hloc'[h].category_id \in DOMAIN categories'
                /\ categories'[hloc'[h].category_id] = hloc[h].category]_vars

(* C9: whatever the interleaving of add_item and delete_item handlers, no *)
(* item row is modified, a row disappears only in the DELETE step of the  *)
(* handler deleting that id, no two rows carry one name, and a file       *)
(* disappears only in the remove step of a delete handler whose own row   *)
(* referenced it and whose count of remaining referents was zero.  The    *)
(* witness is the race itself: the row inserted between the count and the *)
(* removal is left naming a removed file.                                 *)
C9_RaceWorstCase ==
    [][/\ \A i \in DOMAIN items : i \in DOMAIN items' => items'[i] = items[i]
       /\ \A i \in DOMAIN items \ DOMAIN items' :
             \E h \in Handlers : pc[h] = "delete_row" /\ hloc[h].item_id = i
       /\ \A i, j \in DOMAIN items' : items'[i].name = items'[j].name => i = j
       /\ \A f \in images \ images' :
             \E h \in Handlers :
                /\ pc[h] = "remove"
                /\ hloc[h].image_name = f
                /\ hloc[h].count = 0]_vars

(* The race: both handlers have answered 200, and the row the add_item    *)
(* inserted names a file the delete_item removed.                         *)
C9_Witness ==
    /\ \A h \in Handlers : pc[h] = "idle" /\ hresp[h] = 200
    /\ Cardinality(DOMAIN items) = 1
    /\ \E i \in DOMAIN items : items[i].image_name \notin images

====
